---- MODULE Spec2Model ----
(***************************************************************************)
(* OATH HOTP + TOTP (onetime.py): the counter encoder, the dynamic         *)
(* truncation over the hexadecimal digest, the [-digits:] formatting and   *)
(* the time-derived counter, as state machines over bounded inputs.        *)
(*                                                                         *)
(* Representation.  TLC integers are 32 bits wide, Python integers are     *)
(* unbounded.  A Python integer is therefore a record                      *)
(*     [neg |-> BOOLEAN, limbs |-> a sequence of 16-bit limbs]             *)
(* little-endian, in two's complement with an infinite sign extension      *)
(* (limb 0 for neg = FALSE, limb 65535 for neg = TRUE), which is exactly   *)
(* how Python defines & and >> on negative integers.  A Python string is   *)
(* a sequence of one-character strings.                                    *)
(***************************************************************************)
EXTENDS Integers, Sequences, FiniteSets, TLC

VARIABLES clock, pc, call, run, enc, tr

vars == <<clock, pc, call, run, enc, tr>>

-----------------------------------------------------------------------------
(* Bounds of the model *)

\* number of 16-bit limbs of the counters given to the encoder
MaxLimbs == 5
\* last clock reading, in ticks
MaxClock == 8
\* clock ticks per second: time.time() is a float with sub-second readings
TicksPerSecond == 2
\* largest number of digits asked of the truncation alone
MaxDigits == 11

-----------------------------------------------------------------------------
(* Python integers *)

LimbSamples == {0, 1, 255, 256, 65535}

PyInt(neg, limbs) == [neg |-> neg, limbs |-> limbs]

\* the limb that extends n beyond its stored limbs
SignLimb(n) == IF n.neg THEN 65535 ELSE 0

\* limb j (1 = least significant) of the infinite two's complement form of n
Limb(n, j) == IF j <= Len(n.limbs) THEN n.limbs[j] ELSE SignLimb(n)

\* a small TLC integer as a Python integer
FromInt(i) == PyInt(i < 0, << i % 65536, (i \div 65536) % 65536 >>)

RECURSIVE StripLimbs(_, _)
StripLimbs(s, ext) ==
    IF s # <<>> /\ s[Len(s)] = ext THEN StripLimbs(SubSeq(s, 1, Len(s) - 1), ext)
    ELSE s

\* the one representation of n without redundant sign limbs
Normal(n) == PyInt(n.neg, StripLimbs(n.limbs, SignLimb(n)))

\* n == m as Python integers
PyEq(n, m) == Normal(n) = Normal(m)

\* 0 <= n < 2^64
IsUint64(n) == ~n.neg /\ Len(Normal(n).limbs) <= 4

\* n + 2^64, for a non-negative n below 2^64
PlusTwo64(n) ==
    PyInt(FALSE, [j \in 1..5 |-> IF j = 5 THEN 1 ELSE Limb(n, j)])

\* long_num & 0xff
And0xff(n) == Limb(n, 1) % 256

\* long_num >> 8 (arithmetic: the sign extension is shifted in)
Shr8(n) ==
    PyInt(n.neg, [j \in 1..Len(n.limbs) |->
                    (n.limbs[j] \div 256) + 256 * (Limb(n, j + 1) % 256)])

\* the mask one bit short: n & 0x3fffffff
And0x3fffffff(n) == Limb(n, 1) + 65536 * (Limb(n, 2) % 16384)

\* n & 0x7fffffff, which fits a TLC integer
And0x7fffffff(n) == Limb(n, 1) + 65536 * (Limb(n, 2) % 32768)

\* n * 16 + d on the limbs of a non-negative n, d a hexadecimal digit
RECURSIVE Mul16AddLimbs(_, _)
Mul16AddLimbs(s, carry) ==
    IF s = <<>> THEN (IF carry = 0 THEN <<>> ELSE <<carry>>)
    ELSE LET t == s[1] * 16 + carry
         IN  <<t % 65536>> \o Mul16AddLimbs(Tail(s), t \div 65536)

Mul16Add(n, d) == PyInt(FALSE, Mul16AddLimbs(n.limbs, d))

-----------------------------------------------------------------------------
(* Python strings *)

HexChars == <<"0", "1", "2", "3", "4", "5", "6", "7",
              "8", "9", "a", "b", "c", "d", "e", "f">>

\* int(c, 16) of one character
HexVal(c) == (CHOOSE i \in 1..16 : HexChars[i] = c) - 1

\* int(s, 16) of a non-empty hexadecimal string
RECURSIVE IntBase16(_)
IntBase16(s) ==
    IF s = <<>> THEN PyInt(FALSE, <<>>)
    ELSE Mul16Add(IntBase16(SubSeq(s, 1, Len(s) - 1)), HexVal(s[Len(s)]))

\* str(n) of a non-negative integer
RECURSIVE Str(_)
Str(n) ==
    IF n < 10 THEN <<HexChars[n + 1]>>
    ELSE Str(n \div 10) \o <<HexChars[(n % 10) + 1]>>

\* s[a:b] with 0 <= a <= b: Python clamps the slice to the string
Slice(s, a, b) ==
    SubSeq(s, (IF a < Len(s) THEN a ELSE Len(s)) + 1,
              IF b < Len(s) THEN b ELSE Len(s))

\* the cut taken at the wrong end: s[:-i]
SliceUpTo(s, i) == SubSeq(s, 1, IF -i < Len(s) THEN -i ELSE Len(s))

\* s[i:] with any sign of i: a negative index counts from the end
SliceFrom(s, i) ==
    LET start == IF i < 0 THEN (IF Len(s) + i > 0 THEN Len(s) + i ELSE 0)
                 ELSE (IF i < Len(s) THEN i ELSE Len(s))
    IN  SubSeq(s, start + 1, Len(s))

-----------------------------------------------------------------------------
(* _long_to_byte_array *)

\* the 8 of range(0, 8)
NumBytes == 8

\* the bytes appended instead of inserted at 0: least significant byte first
RECURSIVE EncodeLoopAppend(_, _, _)
EncodeLoopAppend(i, long_num, byte_array) ==
    IF i = 0 THEN byte_array
    ELSE EncodeLoopAppend(i - 1, Shr8(long_num),
                          byte_array \o <<And0xff(long_num)>>)

RECURSIVE EncodeLoop(_, _, _)
EncodeLoop(i, long_num, byte_array) ==
    IF i = 0 THEN byte_array
    ELSE EncodeLoop(i - 1, Shr8(long_num), <<And0xff(long_num)>> \o byte_array)

_long_to_byte_array(long_num) == EncodeLoop(NumBytes, long_num, <<>>)

-----------------------------------------------------------------------------
(* hmac.new(key=K, msg=C_bytes, digestmod=hashlib.sha1).hexdigest() *)

RECURSIVE Sum(_)
Sum(s) == IF s = <<>> THEN 0 ELSE s[1] + Sum(Tail(s))

\* the ASCII bytes of '12345678901234567890'
RfcKey == <<49, 50, 51, 52, 53, 54, 55, 56, 57, 48,
            49, 50, 51, 52, 53, 54, 55, 56, 57, 48>>

\* HMAC-SHA1(RfcKey, counter) for the counters 0..9 (RFC 4226, Appendix D)
RfcDigests == <<
  <<204,147,207,24,80,141,148,147,76,100,182,93,139,167,102,127,183,205,228,176>>,
  <<117,164,138,25,212,203,225,0,100,78,138,193,57,126,234,116,122,45,51,171>>,
  <<11,172,183,250,8,47,239,48,120,34,17,147,139,193,197,231,4,22,255,68>>,
  <<102,194,130,39,208,58,45,85,41,38,47,240,22,161,230,239,118,85,126,206>>,
  <<169,4,201,0,166,75,53,144,152,116,179,62,97,197,147,138,142,21,237,28>>,
  <<163,126,120,61,123,114,51,192,131,212,246,41,38,199,162,95,35,141,3,22>>,
  <<188,156,210,133,97,4,44,131,242,25,50,77,60,96,114,86,192,50,114,174>>,
  <<164,251,150,12,11,192,110,30,171,184,4,229,179,151,205,196,180,85,150,250>>,
  <<27,60,137,246,94,108,158,136,48,18,5,40,35,68,63,4,139,67,50,219>> ,
  <<22,55,64,152,9,166,121,220,105,130,7,49,12,140,127,192,114,144,217,229>> >>

\* SHA-1 is not computed here.  Away from the RFC table the digest is a
\* deterministic stand-in: 20 bytes whose last nibble (the offset) and whose
\* four bytes at that offset are chosen by the key and the message, so that
\* equal (key, message) give equal digests and the truncation meets small,
\* large and top-bit-set values at every offset.
Patterns == << <<0, 0, 0, 0>>,         <<0, 0, 0, 7>>,       <<128, 0, 0, 0>>,
               <<255, 255, 255, 255>>, <<0, 1, 226, 64>>,    <<5, 245, 225, 0>>,
               <<0, 15, 66, 63>>,      <<129, 2, 3, 4>>,     <<127, 0, 48, 57>> >>

\* a digest with the four bytes w at the 0-based offset o; fill seeds the rest
Digest(o, w, fill) ==
    [j \in 1..20 |->
        IF j = 20 THEN 16 * (fill % 16) + o
        ELSE IF j > o /\ j <= o + 4 THEN w[j - o]
        ELSE (29 * j + 7 * fill + 1) % 256]

Mix(msg) == Sum([j \in 1..Len(msg) |-> (Len(msg) + 1 - j) * msg[j]])

IsRfcMessage(msg) ==
    /\ Len(msg) = 8
    /\ \A j \in 1..7 : msg[j] = 0
    /\ msg[8] <= 9

HmacSha1(K, msg) ==
    IF K = RfcKey /\ IsRfcMessage(msg) THEN RfcDigests[msg[8] + 1]
    ELSE LET m == Sum(K) + Mix(msg)
         IN  Digest(Mix(msg) % 16, Patterns[(m % Len(Patterns)) + 1], m)

\* the lower-case hexadecimal text of a digest, two characters per byte
RECURSIVE hexdigest(_)
hexdigest(mac) ==
    IF mac = <<>> THEN <<>>
    ELSE <<HexChars[(mac[1] \div 16) + 1], HexChars[(mac[1] % 16) + 1]>>
         \o hexdigest(Tail(mac))

-----------------------------------------------------------------------------
(* Truncate, HOTP, TOTP *)

\* the offset taken in characters instead of bytes
TruncateCharOffset(hmac_sha1) ==
    LET offset == HexVal(hmac_sha1[Len(hmac_sha1)])
        binary == And0x7fffffff(IntBase16(Slice(hmac_sha1, offset, offset + 8)))
    IN  Str(binary)

Truncate(hmac_sha1) ==
    LET offset == HexVal(hmac_sha1[Len(hmac_sha1)])
        binary == And0x7fffffff(
                      IntBase16(Slice(hmac_sha1, offset * 2, (offset * 2) + 8)))
    IN  Str(binary)

\* the outcome of a call: a returned string or a raised exception
Returned(s) == [status |-> "returned", exc |-> "none", ret |-> s]
Raised(e) == [status |-> "raised", exc |-> e, ret |-> <<>>]

HOTP(K, C, digits) ==
    LET C_bytes == _long_to_byte_array(C)
        hmac_sha1 == hexdigest(HmacSha1(K, C_bytes))
    IN  Returned(SliceFrom(Truncate(hmac_sha1), -digits))

\* long(x / y) of the float division: the quotient truncated towards zero
TruncDiv(x, y) ==
    LET ax == IF x < 0 THEN -x ELSE x
        ay == IF y < 0 THEN -y ELSE y
    IN  IF (x < 0) = (y < 0) THEN ax \div ay ELSE -(ax \div ay)

\* the window forgotten: C = long(time.time())
TotpCounterNoWindow(now, window) == FromInt(TruncDiv(now, TicksPerSecond))

\* C = long(time.time() / window), the clock read as now ticks
TotpCounter(now, window) == FromInt(TruncDiv(now, TicksPerSecond * window))

TOTP(K, digits, window, now) ==
    IF window = 0 THEN Raised("ZeroDivisionError")
    ELSE HOTP(K, TotpCounter(now, window), digits)

-----------------------------------------------------------------------------
(* The inputs of the model *)

\* keys: the RFC test key, the empty key and two one-byte keys
Keys == {RfcKey, <<>>, <<1>>, <<5>>}

Two32 == PyInt(FALSE, <<0, 0, 1>>)
Two64 == PyInt(FALSE, <<0, 0, 0, 0, 1>>)

\* counters given to HOTP: the RFC table, 2^32, 2^64 - 1, 2^64 and beyond,
\* and negative counters
HotpCounters ==
    {FromInt(i) : i \in 0..9}
    \cup {Two32, PyInt(FALSE, <<65535, 65535, 65535, 65535>>), Two64,
          PlusTwo64(FromInt(7)), FromInt(-1), FromInt(-256)}

DigitsSet == {-2, 0, 1, 6, 8, 9, 10}

Windows == {-1, 0, 1, 2, 30}

\* counters given to the encoder alone: every limb sequence over LimbSamples
RECURSIVE LimbSeqs(_)
LimbSeqs(n) ==
    IF n = 0 THEN {<<>>}
    ELSE LET shorter == LimbSeqs(n - 1)
         IN  shorter \cup {Append(s, l) : s \in {t \in shorter : Len(t) = n - 1},
                                           l \in LimbSamples}

EncCounters == {PyInt(neg, s) : neg \in BOOLEAN, s \in LimbSeqs(MaxLimbs)}

\* digests given to the truncation alone: the RFC table, and every offset
\* with every four bytes over ByteSamples
ByteSamples == {0, 1, 128, 255}

TruncDigests ==
    {RfcDigests[i] : i \in 1..Len(RfcDigests)}
    \cup {Digest(o, <<a, b, c, d>>, a + b + c + d + o) :
            o \in 0..15, a \in ByteSamples, b \in ByteSamples,
            c \in ByteSamples, d \in ByteSamples}

-----------------------------------------------------------------------------
(* State *)

NoInt == PyInt(FALSE, <<>>)

NoCall == [fn |-> "none", K |-> <<>>, C |-> NoInt, digits |-> 0, window |-> 0,
           now |-> 0, status |-> "none", exc |-> "none", ret |-> <<>>,
           hashed |-> FALSE]

NoRun == [K |-> <<>>, digits |-> 0, window |-> 0, first |-> 0, last |-> 0,
          value |-> <<>>, value_changes |-> 0]

NoEnc == [long_num |-> NoInt, applied |-> FALSE, byte_array |-> <<>>]

NoTr == [mac |-> <<>>, digits |-> 0, applied |-> FALSE,
         truncated |-> <<>>, ret |-> <<>>]

\* the record of a finished call
HotpCall(K, C, digits) ==
    LET r == HOTP(K, C, digits)
    IN  [fn |-> "HOTP", K |-> K, C |-> C, digits |-> digits, window |-> 0,
         now |-> 0, status |-> r.status, exc |-> r.exc, ret |-> r.ret,
         hashed |-> TRUE]

TotpCall(K, digits, window, now) ==
    LET r == TOTP(K, digits, window, now)
    IN  [fn |-> "TOTP", K |-> K,
         C |-> IF window = 0 THEN NoInt ELSE TotpCounter(now, window),
         digits |-> digits, window |-> window, now |-> now,
         status |-> r.status, exc |-> r.exc, ret |-> r.ret,
         hashed |-> window # 0]

-----------------------------------------------------------------------------
(* The library and its test in use *)

Init ==
    /\ clock = 0
    /\ pc = "idle"
    /\ call = NoCall
    /\ run = NoRun
    /\ enc = NoEnc
    /\ tr = NoTr

\* time passes between calls
Tick ==
    /\ pc # "called"
    /\ clock < MaxClock
    /\ clock' = clock + 1
    /\ UNCHANGED <<pc, call, run, enc, tr>>

\* a caller computes HOTP(K, C, digits)
CallHOTP ==
    /\ pc = "idle"
    /\ \E K \in Keys, C \in HotpCounters, digits \in DigitsSet :
          call' = HotpCall(K, C, digits)
    /\ pc' = "called"
    /\ UNCHANGED <<clock, run, enc, tr>>

\* a caller computes TOTP(K, digits, window) at the current time
CallTOTP ==
    /\ pc = "idle"
    /\ \E K \in Keys, digits \in DigitsSet, window \in Windows :
          call' = TotpCall(K, digits, window, clock)
    /\ pc' = "called"
    /\ UNCHANGED <<clock, run, enc, tr>>

\* the caller is done with the outcome; the library keeps nothing of the call
Discard ==
    /\ pc = "called"
    /\ pc' = "idle"
    /\ call' = NoCall
    /\ UNCHANGED <<clock, run, enc, tr>>

\* test_totp, its first call: value = TOTP(...); value_changes = 0
TestTotpBegin ==
    /\ pc = "idle"
    /\ \E K \in Keys, digits \in {6, 8}, window \in Windows \ {0} :
          /\ call' = TotpCall(K, digits, window, clock)
          /\ run' = [K |-> K, digits |-> digits, window |-> window,
                     first |-> clock, last |-> clock,
                     value |-> call'.ret, value_changes |-> 0]
    /\ pc' = "test_totp"
    /\ UNCHANGED <<clock, enc, tr>>

\* test_totp, one turn of its loop
TestTotpLoop ==
    /\ pc = "test_totp"
    /\ call' = TotpCall(run.K, run.digits, run.window, clock)
    /\ run' = IF call'.ret # run.value
              THEN [run EXCEPT !.last = clock, !.value = call'.ret,
                               !.value_changes = @ + 1]
              ELSE [run EXCEPT !.last = clock]
    /\ UNCHANGED <<clock, pc, enc, tr>>

\* test_totp ends
TestTotpEnd ==
    /\ pc = "test_totp"
    /\ pc' = "idle"
    /\ call' = NoCall
    /\ run' = NoRun
    /\ UNCHANGED <<clock, enc, tr>>

Next ==
    \/ Tick
    \/ CallHOTP
    \/ CallTOTP
    \/ Discard
    \/ TestTotpBegin
    \/ TestTotpLoop
    \/ TestTotpEnd

Spec == Init /\ [][Next]_vars

-----------------------------------------------------------------------------
(* The encoder alone *)

InitEncode ==
    /\ clock = 0
    /\ pc = "idle"
    /\ call = NoCall
    /\ run = NoRun
    /\ enc \in {[long_num |-> c, applied |-> FALSE, byte_array |-> <<>>] :
                  c \in EncCounters}
    /\ tr = NoTr

Encode ==
    /\ ~enc.applied
    /\ enc' = [enc EXCEPT !.applied = TRUE,
                          !.byte_array = _long_to_byte_array(enc.long_num)]
    /\ UNCHANGED <<clock, pc, call, run, tr>>

NextEncode == Encode

SpecEncode == InitEncode /\ [][NextEncode]_vars

-----------------------------------------------------------------------------
(* The truncation and the formatting alone *)

InitTruncate ==
    /\ clock = 0
    /\ pc = "idle"
    /\ call = NoCall
    /\ run = NoRun
    /\ enc = NoEnc
    /\ tr \in {[mac |-> m, digits |-> 0, applied |-> FALSE,
                 truncated |-> <<>>, ret |-> <<>>] : m \in TruncDigests}

\* Truncate(hmac_sha1)[-digits:] on the digest drawn
TruncateAndCut ==
    /\ ~tr.applied
    /\ \E digits \in 1..MaxDigits :
          LET truncated == Truncate(hexdigest(tr.mac))
          IN  tr' = [tr EXCEPT !.applied = TRUE, !.digits = digits,
                               !.truncated = truncated,
                               !.ret = SliceFrom(truncated, -digits)]
    /\ UNCHANGED <<clock, pc, call, run, enc>>

NextTruncate == TruncateAndCut

SpecTruncate == InitTruncate /\ [][NextTruncate]_vars

-----------------------------------------------------------------------------
(* Properties *)

\* the number a string of decimal digits reads as
RECURSIVE DecVal(_)
DecVal(s) ==
    IF s = <<>> THEN 0
    ELSE 10 * DecVal(SubSeq(s, 1, Len(s) - 1)) + HexVal(s[Len(s)])

\* the value of the bytes b, most significant first, as a Python integer
BigEndianValue(b) ==
    PyInt(FALSE, [j \in 1..(Len(b) \div 2) |->
                    b[Len(b) - 2 * j + 2] + 256 * b[Len(b) - 2 * j + 1]])

\* the dynamic truncation of RFC 4226 on the bytes of the digest
ByteOffset(mac) == mac[20] % 16

ByteLevelValue(mac) ==
    LET o == ByteOffset(mac)
    IN  ((mac[o + 1] % 128) * 16777216) + (mac[o + 2] * 65536)
        + (mac[o + 3] * 256) + mac[o + 4]

\* v mod 10^d for 0 <= v < 2^31: from d = 10 on, 10^d exceeds every such v
ModPow10(v, d) == IF d >= 10 THEN v ELSE v % (10 ^ d)

IsCall(fn) == call.fn = fn /\ call.status # "none"

\* C1: for every key, every counter in [0, 2^64) and every digits d in 1..9,
\* the string HOTP (and TOTP) returns has length exactly d.
C1_LengthIsDigits ==
    ((IsCall("HOTP") \/ IsCall("TOTP")) /\ call.status = "returned"
        /\ IsUint64(call.C) /\ call.digits \in 1..9)
    => Len(call.ret) = call.digits

\* the codes of RFC 4226, Appendix D, for the counters 0..9
RfcCodes == << <<"7","5","5","2","2","4">>, <<"2","8","7","0","8","2">>,
               <<"3","5","9","1","5","2">>, <<"9","6","9","4","2","9">>,
               <<"3","3","8","3","1","4">>, <<"2","5","4","6","7","6">>,
               <<"2","8","7","9","2","2">>, <<"1","6","2","5","8","3">>,
               <<"3","9","9","8","7","1">>, <<"5","2","0","4","8","9">> >>

\* C2: with the RFC key and digits = 6, HOTP(key, i) for i = 0..9 returns the
\* codes of RFC 4226, Appendix D, in that order.
C2_RfcVectors ==
    \A i \in 0..9 :
        (IsCall("HOTP") /\ call.K = RfcKey /\ call.digits = 6
            /\ PyEq(call.C, FromInt(i)))
        => (call.status = "returned" /\ call.ret = RfcCodes[i + 1])

C2_Witness ==
    /\ IsCall("HOTP") /\ call.K = RfcKey /\ call.digits = 6
    /\ PyEq(call.C, FromInt(9))
    /\ call.ret = RfcCodes[10]

\* C3: a call HOTP(key, counter, digits) with digits <= 0 fails with an
\* error and returns no code string.
C3_NonPositiveDigitsRejected ==
    (IsCall("HOTP") /\ call.digits <= 0)
    => (call.status = "raised" /\ call.ret = <<>>)

\* C4: a call TOTP(key, digits, window) with window <= 0 fails with an error
\* before any hashing and returns no code string.
C4_NonPositiveWindowRejected ==
    (IsCall("TOTP") /\ call.window <= 0)
    => (call.status = "raised" /\ ~call.hashed /\ call.ret = <<>>)

\* C5: for every counter >= 2^64, the encoder, and hence HOTP, signals an
\* overflow error instead of encoding the counter reduced modulo 2^64.
C5_OverflowRejected ==
    (IsCall("HOTP") /\ ~call.C.neg /\ ~IsUint64(call.C))
    => (call.status = "raised" /\ call.exc = "OverflowError")

\* C6: a call HOTP(key, counter, digits) with a negative counter fails with
\* an error and returns no code string.
C6_NegativeCounterRejected ==
    (IsCall("HOTP") /\ call.C.neg)
    => (call.status = "raised" /\ call.ret = <<>>)

\* C7: for every counter c in [0, 2^64), _long_to_byte_array(c) is exactly 8
\* bytes, each in 0..255, whose big-endian value is c; counter 0 gives eight
\* zero bytes and counter 2^32 a non-zero byte among the upper four.
C7_BigEndianEightBytes ==
    (enc.applied /\ IsUint64(enc.long_num))
    => LET b == enc.byte_array
       IN  /\ Len(b) = 8
           /\ \A j \in 1..Len(b) : b[j] \in 0..255
           /\ PyEq(BigEndianValue(b), enc.long_num)
           /\ PyEq(enc.long_num, FromInt(0)) => \A j \in 1..Len(b) : b[j] = 0
           /\ PyEq(enc.long_num, Two32) => \E j \in 1..4 : b[j] # 0

C7_Witness ==
    /\ enc.applied
    /\ enc.long_num = PyInt(FALSE, <<256, 255, 1, 65535>>)
    /\ enc.byte_array = <<255, 255, 0, 1, 0, 255, 1, 0>>

\* C8: for a fixed key, digits and positive window and a clock that only
\* advances, TOTP uses counter = floor(now / window); two successive calls
\* whose clock readings fall in the same bucket return the same code; and
\* over successive calls whose clock readings span less than one window the
\* returned code changes at most once.
Bucket(now, window) == now \div (TicksPerSecond * window)

C8_SameBucketSameCode ==
    (/\ IsCall("TOTP") /\ call.status = "returned"
     /\ call'.fn = "TOTP" /\ call'.status = "returned"
     /\ call'.K = call.K /\ call'.digits = call.digits
     /\ call'.window = call.window /\ call.window > 0
     /\ call.now <= call'.now
     /\ Bucket(call.now, call.window) = Bucket(call'.now, call'.window))
    => call'.ret = call.ret

C8_AtMostOneChange ==
    /\ (IsCall("TOTP") /\ call.window > 0)
        => PyEq(call.C, FromInt(Bucket(call.now, call.window)))
    /\ (pc = "test_totp" /\ run.window > 0
            /\ run.last - run.first < TicksPerSecond * run.window)
        => run.value_changes <= 1

C8_WindowStability == [][C8_SameBucketSameCode]_vars /\ []C8_AtMostOneChange

C8_Witness ==
    /\ pc = "test_totp" /\ run.window = 2
    /\ run.last - run.first < TicksPerSecond * run.window
    /\ run.last > run.first
    /\ run.value_changes = 1
    /\ call.now = run.last /\ call.ret = run.value

\* C9: for every 20-byte digest mac, Truncate of its hexadecimal text is the
\* decimal string of the byte-level truncation: offset = low 4 bits of
\* mac[19], the four bytes from offset read big-endian, top bit cleared; the
\* four bytes lie inside the digest and the value is in [0, 2^31 - 1].
C9_TruncateIsByteLevel ==
    tr.applied
    => /\ tr.truncated = Str(ByteLevelValue(tr.mac))
       /\ DecVal(tr.truncated) = ByteLevelValue(tr.mac)
       /\ ByteOffset(tr.mac) + 4 <= 20
       /\ ByteLevelValue(tr.mac) \in 0..2147483647

C9_Witness ==
    /\ tr.applied
    /\ ByteOffset(tr.mac) = 15
    /\ tr.mac[16] = 255 /\ tr.mac[19] = 1
    /\ tr.truncated = Str(2147418113)

\* C10: for every truncated value v in [0, 2^31 - 1] and every digits d >= 1,
\* the last d characters of the decimal rendering of v, read as a decimal
\* number, are v mod 10^d.
C10_CutIsModulo ==
    (tr.applied /\ tr.digits >= 1)
    => /\ tr.ret # <<>>
       /\ DecVal(tr.ret) = ModPow10(ByteLevelValue(tr.mac), tr.digits)

C10_Witness ==
    /\ tr.applied /\ tr.digits = 6
    /\ Len(tr.truncated) = 10
    /\ tr.ret[1] = "0"
    /\ DecVal(tr.ret) # DecVal(tr.truncated)

====
